---- MODULE Spec2Model ----
(***************************************************************************)
(* Model of the streaming XZ decoder of src/read/xz.rs: XzDecoder::read,   *)
(* get_multibyte, RcCountReader, XzReader::into_inner.                     *)
(*                                                                         *)
(* The byte source is a cursor over a byte vector.  Bytes are 0..255.      *)
(* A CRC-32 register is kept as <<low 16 bits, high 16 bits>> and a u64    *)
(* as nine base-128 digits, least significant first, so that no value      *)
(* leaves the integer range of the model checker.                          *)
(***************************************************************************)
EXTENDS Integers, Sequences, FiniteSets, TLC

VARIABLES
    input,              \* descriptor of the byte stream handed to XzDecoder::new
    inner,              \* RcCountReader.inner: the caller's source, a cursor pos over
                        \* data that hands out at most chunk bytes per read call
    count,              \* RcCountReader.count, shared by all clones
    refs,               \* strong count of the Rc holding the source
    compressed_reader,  \* "Raw" (XzReader::RawReader) or "Lzma" (XzReader::LzmaReader)
    lzma,               \* state of the LZMA2Reader while compressed_reader = "Lzma"
    flags,              \* XzDecoder.flags
    block_begin,        \* XzDecoder.block_begin
    block_written,      \* XzDecoder.block_written
    records,            \* XzDecoder.records
    out,                \* every byte read has returned to the caller, in order
    result,             \* what the last call returned
    firstErr,           \* message of the first error any read returned, "" if none
    ended,              \* number of times the footer padding step completed (line 212)
    hdrs,               \* number of stream headers parsed past the magic check
    twin,               \* second decoder, used to compare two runs
    mb                  \* last call of get_multibyte on its own: where it started,
                        \* the value it returned and the bytes it fed to the Hasher

vars == <<input, inner, count, refs, compressed_reader, lzma, flags, block_begin,
          block_written, records, out, result, firstErr, ended, hdrs, twin, mb>>

(***************************************************************************)
(* Bounds                                                                  *)
(***************************************************************************)
MaxBlocks == 2      \* blocks per generated stream
MaxBuf == 2         \* largest caller buffer
MaxRecords == 3     \* reads are explored while records is shorter than this
MaxConts == 9       \* longest run of continuation bytes handed to get_multibyte

(***************************************************************************)
(* Bit and byte helpers                                                    *)
(***************************************************************************)
Min(a, b) == IF a < b THEN a ELSE b

\* bitwise exclusive or of two 4-bit values
XorBit(a, b, k) == (((a \div k) % 2) + ((b \div k) % 2)) % 2

XorTable ==
    [a \in 0..15 |-> [b \in 0..15 |->
        XorBit(a, b, 1) + 2 * XorBit(a, b, 2) + 4 * XorBit(a, b, 4) + 8 * XorBit(a, b, 8)]]

\* bitwise exclusive or of two 16-bit values
Xor(a, b) ==
    XorTable[a % 16][b % 16]
    + 16 * XorTable[(a \div 16) % 16][(b \div 16) % 16]
    + 256 * XorTable[(a \div 256) % 16][(b \div 256) % 16]
    + 4096 * XorTable[a \div 4096][b \div 4096]

Zeros(n) == [i \in 1..n |-> 0]

AllZero(b) == \A i \in 1..Len(b) : b[i] = 0

\* (4 - (x & 3)) & 3
Pad4(x) == (4 - (x % 4)) % 4

(***************************************************************************)
(* crc32fast::Hasher: CRC-32 (IEEE 802.3, reflected), by nibbles.          *)
(* A Hasher is modelled by the bytes fed to it; Crc32 is                   *)
(* finalize().to_le_bytes().                                               *)
(***************************************************************************)
CrcTable ==
    << <<0, 0>>,         <<4196, 7607>>,   <<8392, 15214>>,  <<12460, 9945>>,
       <<16784, 30428>>, <<20980, 27499>>, <<24920, 19890>>, <<28988, 20485>>,
       <<33568, 60856>>, <<37700, 61455>>, <<41960, 54998>>, <<45964, 52065>>,
       <<49840, 39780>>, <<53972, 34515>>, <<57976, 40970>>, <<61980, 48573>> >>

CrcNibble(c, n) ==
    LET t == CrcTable[Xor(c[1] % 16, n) + 1]
    IN  <<Xor((c[1] \div 16) + 4096 * (c[2] % 16), t[1]), Xor(c[2] \div 16, t[2])>>

CrcByte(c, b) == CrcNibble(CrcNibble(c, b % 16), b \div 16)

\* The test on n makes the register a value before the next byte is taken.
RECURSIVE CrcUpdate(_, _)
CrcUpdate(c, s) ==
    IF s = <<>> THEN c
    ELSE LET n == CrcByte(c, Head(s))
         IN  IF n[1] >= 0 THEN CrcUpdate(n, Tail(s)) ELSE n

Crc32(s) ==
    LET c == CrcUpdate(<<65535, 65535>>, s)
        lo == 65535 - c[1]
        hi == 65535 - c[2]
    IN  <<lo % 256, lo \div 256, hi % 256, hi \div 256>>

\* (x as u32).to_le_bytes() for x < 2^31
Le32(x) == <<x % 256, (x \div 256) % 256, (x \div 65536) % 256, (x \div 16777216) % 256>>

(***************************************************************************)
(* u64 values as nine base-128 digits                                      *)
(***************************************************************************)
U64Zero == [i \in 1..9 |-> 0]

\* n as u64, for n < 2^31
U64(n) ==
    [i \in 1..9 |->
        IF i = 1 THEN n % 128
        ELSE IF i = 2 THEN (n \div 128) % 128
        ELSE IF i = 3 THEN (n \div 16384) % 128
        ELSE IF i = 4 THEN (n \div 2097152) % 128
        ELSE IF i = 5 THEN (n \div 268435456) % 128
        ELSE 0]

(***************************************************************************)
(* The streams handed to the decoder.  A stream is described by its check  *)
(* type, its blocks (each a list of LZMA2 chunk lengths), one deliberate   *)
(* defect, the bytes of the check fields and what follows the stream in    *)
(* the source; StreamBytes lays the description out byte by byte in the    *)
(* XZ format (section 6 of the specification, and the layout xz.rs reads). *)
(***************************************************************************)
BlockKinds == {<<>>, <<1>>, <<4>>, <<2, 3>>}

Defects == {"none", "hdrpad", "blkpad", "idxpad", "idxcount", "idxunp", "idxunc",
            "filters2", "magic", "hdrres", "hdrct", "hdrcrc", "hdrshort", "ftswap",
            "bsize"}

Trails == {"none", "garbage", "stream"}

CheckFills == {"crc", "zero", "bad"}

RECURSIVE SumSeq(_)
SumSeq(s) == IF s = <<>> THEN 0 ELSE Head(s) + SumSeq(Tail(s))

EncVarint(n) == IF n < 128 THEN <<n>> ELSE <<128 + (n % 128), n \div 128>>

\* decompressed payload of block i
Payload(in, i) == [j \in 1..SumSeq(in.blocks[i]) |-> 64 + 16 * i + j]

\* LZMA2 body: uncompressed chunks (control 1, then 2), 16-bit big-endian
\* size minus one, data; control byte 0 ends the body.
RECURSIVE LzChunks(_, _, _)
LzChunks(chunks, data, first) ==
    IF chunks = <<>> THEN <<0>>
    ELSE LET n == Head(chunks)
         IN  <<IF first THEN 1 ELSE 2, (n - 1) \div 256, (n - 1) % 256>>
             \o SubSeq(data, 1, n)
             \o LzChunks(Tail(chunks), SubSeq(data, n + 1, Len(data)), FALSE)

LzBody(in, i) == LzChunks(in.blocks[i], Payload(in, i), TRUE)

\* block header up to its CRC32: length byte, flags, filters, padding
BlockHeaderPre(in) ==
    IF in.defect = "filters2"
    THEN <<2, 1, 33, 1, 22, 33, 1, 22>>
    ELSE IF in.defect = "hdrshort"
    THEN <<1, 0, 33, 1, 22, 0, 0, 0>>
    ELSE <<2, 0, 33, 1, 22>> \o (IF in.defect = "hdrpad" THEN <<0, 7, 0>> ELSE <<0, 0, 0>>)

BlockHeaderBytes(in) == BlockHeaderPre(in) \o Crc32(BlockHeaderPre(in))

BlockHeaderLen(in) == Len(BlockHeaderPre(in)) + 4

CheckLen(in) == IF in.ct = 1 THEN 4 ELSE 0

\* unpadded size of block i as the format defines it: header, body, check
TrueUnpadded(in, i) == BlockHeaderLen(in) + Len(LzBody(in, i)) + CheckLen(in)

\* zero bytes that align a section of length len; the defect makes the last non-zero
PadBytes(len, defect) ==
    [j \in 1..Pad4(len) |-> IF defect /\ j = Pad4(len) THEN 9 ELSE 0]

BlockPadBytes(in, i) == PadBytes(TrueUnpadded(in, i), in.defect = "blkpad")

CheckBytes(in, i) ==
    IF in.ct # 1 THEN <<>>
    ELSE IF in.chk = "crc" THEN Crc32(Payload(in, i))
    ELSE IF in.chk = "zero" THEN <<0, 0, 0, 0>>
    ELSE <<1, 2, 3, 4>>

BlockBytes(in, i) ==
    BlockHeaderBytes(in) \o LzBody(in, i) \o BlockPadBytes(in, i) \o CheckBytes(in, i)

RECURSIVE BlocksBytes(_, _)
BlocksBytes(in, i) ==
    IF i > Len(in.blocks) THEN <<>> ELSE BlockBytes(in, i) \o BlocksBytes(in, i + 1)

\* what the index declares
DeclCount(in) == Len(in.blocks) + (IF in.defect = "idxcount" THEN 1 ELSE 0)

DeclPair(in, i) ==
    << TrueUnpadded(in, i) + (IF in.defect = "idxunp" /\ i = 1 THEN 4 ELSE 0),
       SumSeq(in.blocks[i]) + (IF in.defect = "idxunc" /\ i = 1 THEN 1 ELSE 0) >>

RECURSIVE IndexRecordBytes(_, _)
IndexRecordBytes(in, i) ==
    IF i > Len(in.blocks) THEN <<>>
    ELSE EncVarint(DeclPair(in, i)[1]) \o EncVarint(DeclPair(in, i)[2])
         \o IndexRecordBytes(in, i + 1)

IndexPadBytes(in, body) == body \o PadBytes(Len(body), in.defect = "idxpad")

\* marker byte through index padding
IndexBytes(in) ==
    IndexPadBytes(in, <<0>> \o EncVarint(DeclCount(in)) \o IndexRecordBytes(in, 1))

StreamFlags(in) == <<0, in.ct>>

\* the flags bytes of the stream header
HeaderFlagBytes(in) ==
    IF in.defect = "hdrres" THEN <<0, 16 + in.ct>>
    ELSE IF in.defect = "hdrct" THEN <<0, 4>>
    ELSE StreamFlags(in)

\* the stream header with the flags bytes f
HeaderWith(in, f) ==
    (IF in.defect = "magic" THEN <<253, 55, 122, 88, 90, 1>> ELSE <<253, 55, 122, 88, 90, 0>>)
    \o f \o (IF in.defect = "hdrcrc" THEN <<1, 2, 3, 4>> ELSE Crc32(f))

HeaderBytes(in) == HeaderWith(in, HeaderFlagBytes(in))

\* the backward-size field of the footer that follows the index idx
BackwardSizeBytes(in, idx) ==
    Le32(Len(idx) \div 4 + (IF in.defect = "bsize" THEN 1 ELSE 0))

\* the two CRC32 fields that follow the index padding: ci over the index,
\* cf over backward size and flags
IndexFooterCrcs(in, ci, cf) == IF in.defect = "ftswap" THEN cf \o ci ELSE ci \o cf

\* the 16 bytes that follow the index idx, bs being the backward-size field
FooterFields(in, idx, bs) ==
    IndexFooterCrcs(in, Crc32(idx), Crc32(bs \o StreamFlags(in)))
    \o bs \o StreamFlags(in) \o <<89, 90>>

FooterBytes(in, idx) == FooterFields(in, idx, BackwardSizeBytes(in, idx))

IndexAndFooter(in, idx) == idx \o FooterBytes(in, idx)

OneStream(in) ==
    HeaderBytes(in) \o BlocksBytes(in, 1) \o IndexAndFooter(in, IndexBytes(in))

\* what follows the stream s in the source
WithTrail(in, s) ==
    s \o (IF in.trail = "garbage" THEN <<7, 0, 7>>
          ELSE IF in.trail = "stream" THEN s
          ELSE <<>>)

StreamBytes(in) == WithTrail(in, OneStream(in))

\* concatenated payloads of blocks i.. of one stream
RECURSIVE PayloadFrom(_, _)
PayloadFrom(in, i) ==
    IF i > Len(in.blocks) THEN <<>> ELSE Payload(in, i) \o PayloadFrom(in, i + 1)

BlockSeqs == UNION {[1..n -> BlockKinds] : n \in 0..MaxBlocks}

Inputs ==
    {[ct |-> c, blocks |-> b, defect |-> d, trail |-> t, chk |-> "crc"] :
        c \in {0, 1}, b \in BlockSeqs,
        d \in Defects, t \in Trails}

(***************************************************************************)
(* Decoder state as one record d: the fields of XzDecoder and of the       *)
(* shared RcCountReader, the LZMA2Reader state, and the two counters       *)
(* ended and hdrs.  Every operator below returns the state it leaves.      *)
(***************************************************************************)
EofMsg == "failed to fill whole buffer"

NewLzma == [end |-> FALSE, rem |-> 0, fresh |-> TRUE, err |-> FALSE]

\* XzDecoder::new
NewDecoder(data) ==
    [data |-> data, pos |-> 0, chunk |-> Len(data) + 1, count |-> 0, refs |-> 1,
     mode |-> "Raw", lz |-> NewLzma,
     flags |-> <<0, 0>>, block_begin |-> 0, block_written |-> 0, records |-> <<>>,
     ended |-> 0, hdrs |-> 0]

\* what a call returns together with the state it leaves
Ret(d, kind, msg, bytes) == [d |-> d, kind |-> kind, msg |-> msg, bytes |-> bytes]

\* RcCountReader::read with a buffer of k bytes: the source hands out what is
\* left, at most k and at most chunk bytes, and the count grows by as many
CountRead(d, k) ==
    LET n == Min(Min(k, d.chunk), Len(d.data) - d.pos)
    IN  [d |-> [d EXCEPT !.pos = d.pos + n, !.count = d.count + n],
         b |-> SubSeq(d.data, d.pos + 1, d.pos + n)]

RECURSIVE ReadExactLoop(_, _, _)

\* r holds what the last read returned; a read of 0 bytes ends the loop
ReadExactMore(r, k, acc) ==
    IF r.b = <<>> THEN [d |-> r.d, ok |-> FALSE, b |-> acc]
    ELSE ReadExactLoop(r.d, k - Len(r.b), acc \o r.b)

\* the default Read::read_exact: read until the buffer is full
ReadExactLoop(d, k, acc) ==
    IF k = 0 THEN [d |-> d, ok |-> TRUE, b |-> acc]
    ELSE ReadExactMore(CountRead(d, k), k, acc)

\* Read::read_exact on the RcCountReader
ReadExact(d, k) == ReadExactLoop(d, k, <<>>)

(***************************************************************************)
(* A step of the structural parser works on a record p: the decoder d, the *)
(* bytes h fed to the Hasher so far, the bytes b read last, the value v of *)
(* the last multibyte integer, the local size of the index branch, and     *)
(* whether read has returned early (ok = FALSE, with kind and msg).  A     *)
(* step applied after an early return leaves p as it is.                   *)
(***************************************************************************)
Go(d, h) ==
    [d |-> d, ok |-> TRUE, kind |-> "ok", msg |-> "", h |-> h, b |-> <<>>,
     v |-> U64Zero, size |-> 0]

\* error(msg), lines 81-83, returned from read
Fail(p, msg) == [p EXCEPT !.ok = FALSE, !.kind = "err", !.msg = msg]

\* reader.read_exact(&mut b)?
Take(p, k) ==
    IF ~p.ok THEN p
    ELSE LET r == ReadExact(p.d, k)
         IN  IF r.ok THEN [p EXCEPT !.d = r.d, !.b = r.b]
             ELSE [p EXCEPT !.d = r.d, !.ok = FALSE, !.kind = "err", !.msg = EofMsg]

\* hasher.update(&b)
Update(p) == IF p.ok THEN [p EXCEPT !.h = p.h \o p.b] ELSE p

(***************************************************************************)
(* get_multibyte                                                           *)
(***************************************************************************)
\* Shifted with the shift left out
ShiftedLow(acc, i, b) == [acc EXCEPT ![1] = Xor(@, b % 128)]

\* acc ^ (((b & 0x7F) as u64) << (i * 7))
Shifted(acc, i, b) == [acc EXCEPT ![i + 1] = Xor(@, b % 128)]

RECURSIVE MultibyteLoop(_, _, _)

\* lines 91-95: q holds the byte just read
MultibyteByte(q, i, acc) ==
    IF ~q.ok THEN q
    ELSE IF q.b[1] \div 128 = 0 THEN [q EXCEPT !.v = Shifted(acc, i, q.b[1])]
    ELSE MultibyteLoop(q, i + 1, Shifted(acc, i, q.b[1]))

\* lines 87-97
MultibyteLoop(p, i, acc) ==
    IF i = 9 THEN Fail(p, "Invalid multi-byte encoding")
    ELSE MultibyteByte(Update(Take(p, 1)), i, acc)

GetMultibyte(p) == IF ~p.ok THEN p ELSE MultibyteLoop(p, 0, U64Zero)

\* if get_multibyte(..)? != want { return error(msg) }
MultibyteIs(q, want, msg) == IF q.ok /\ q.v # want THEN Fail(q, msg) ELSE q

(***************************************************************************)
(* lzma_rust::LZMA2Reader over a clone of the RcCountReader, for bodies    *)
(* made of uncompressed chunks.  read fills the buffer until the end       *)
(* marker; an empty buffer, a finished body and a failed reader return     *)
(* without touching the source.                                            *)
(***************************************************************************)
LzFail(d) == [d |-> [d EXCEPT !.lz.err = TRUE], ok |-> FALSE, b |-> <<>>]

RECURSIVE LzLoop(_, _, _)

\* the two size bytes of a chunk header
LzChunkSize(z, len, acc) ==
    IF ~z.ok THEN LzFail(z.d)
    ELSE LzLoop([z.d EXCEPT !.lz.rem = 256 * z.b[1] + z.b[2] + 1, !.lz.fresh = FALSE],
                len, acc)

\* decode_chunk_header: c holds the control byte
LzChunkHeader(c, fresh, len, acc) ==
    IF ~c.ok THEN LzFail(c.d)
    ELSE IF c.b[1] = 0 THEN [d |-> [c.d EXCEPT !.lz.end = TRUE], ok |-> TRUE, b |-> acc]
    ELSE IF c.b[1] > 2 \/ (c.b[1] = 2 /\ fresh) THEN LzFail(c.d)
    ELSE LzChunkSize(ReadExact(c.d, 2), len, acc)

\* copy of chunk data into the buffer
LzCopy(r, len, acc) ==
    IF ~r.ok THEN LzFail(r.d)
    ELSE LzLoop([r.d EXCEPT !.lz.rem = @ - Len(r.b)], len - Len(r.b), acc \o r.b)

LzLoop(d, len, acc) ==
    IF len = 0 THEN [d |-> d, ok |-> TRUE, b |-> acc]
    ELSE IF d.lz.rem = 0 THEN LzChunkHeader(ReadExact(d, 1), d.lz.fresh, len, acc)
    ELSE LzCopy(ReadExact(d, Min(d.lz.rem, len)), len, acc)

\* LZMA2Reader::read with a buffer of n bytes
LzRead(d, n) ==
    IF n = 0 THEN [d |-> d, ok |-> TRUE, b |-> <<>>]
    ELSE IF d.lz.err THEN [d |-> d, ok |-> FALSE, b |-> <<>>]
    ELSE IF d.lz.end THEN [d |-> d, ok |-> TRUE, b |-> <<>>]
    ELSE LzLoop(d, n, <<>>)

LzMsg == "LZMA2 error"

RECURSIVE LzReadExact(_, _, _)

LzReadMore(r, k, acc) ==
    IF ~r.ok THEN [d |-> r.d, ok |-> FALSE, msg |-> LzMsg, b |-> acc]
    ELSE IF r.b = <<>> THEN [d |-> r.d, ok |-> FALSE, msg |-> EofMsg, b |-> acc]
    ELSE LzReadExact(r.d, k - Len(r.b), acc \o r.b)

\* Read::read_exact on the LZMA2Reader: read until k bytes or a zero-byte read
LzReadExact(d, k, acc) ==
    IF k = 0 THEN [d |-> d, ok |-> TRUE, msg |-> "", b |-> acc]
    ELSE LzReadMore(LzRead(d, k), k, acc)

(***************************************************************************)
(* XzDecoder::read, lines 102-128: the LzmaReader branch                   *)
(***************************************************************************)
\* BlockRecord with the subtraction of block_begin forgotten
BlockRecordNoBase(d) == <<d.count, d.block_written>>

\* lines 105-106: the pair pushed when the LZMA2 reader returns Ok(0)
BlockRecord(d) == <<d.count - d.block_begin, d.block_written>>

\* lines 108-112, for the check types the stream header lets through
CheckSize(d) == IF d.flags[2] % 16 = 0 THEN 0 ELSE 4

\* line 114: the length of b
TrailerSize(d) == Pad4(d.count - d.block_begin) + CheckSize(d)

\* line 115: reader is the LZMA2Reader, and read_exact is called on it
TrailerRead(d, k) == LzReadExact(d, k, <<>>)

\* lines 115-120: r is what read_exact returned
TrailerCheck(r, check_size) ==
    IF ~r.ok THEN Ret(r.d, "err", r.msg, <<>>)
    ELSE IF ~AllZero(SubSeq(r.b, 1, check_size))
    THEN Ret(r.d, "err", "Invalid XZ block padding", <<>>)
    ELSE Ret([r.d EXCEPT !.mode = "Raw", !.lz = NewLzma], "ok", "", <<>>)

\* lines 104-121
FinalizeBlock(d) ==
    IF d.flags[2] % 16 \notin {0, 1}
    THEN Ret([d EXCEPT !.records = Append(@, BlockRecord(d))], "panic", "unreachable", <<>>)
    ELSE TrailerCheck(TrailerRead([d EXCEPT !.records = Append(@, BlockRecord(d))],
                                  TrailerSize(d)),
                      CheckSize(d))

(***************************************************************************)
(* lines 135-158: the stream header, read when the shared count is 0       *)
(***************************************************************************)
\* lines 146-157: e holds the flags, crc is b[8..]
HeaderFlags(e, crc) ==
    IF e.flags[1] # 0 \/ e.flags[2] \div 16 # 0
    THEN [d |-> e, st |-> "err", msg |-> "Invalid XZ stream flags"]
    ELSE IF e.flags[2] % 16 \notin {0, 1}
    THEN [d |-> e, st |-> "err", msg |-> "Unsupported XZ stream flags"]
    ELSE IF Crc32(e.flags) # crc
    THEN [d |-> e, st |-> "err", msg |-> "Invalid XZ stream flags CRC32"]
    ELSE [d |-> e, st |-> "go", msg |-> ""]

\* lines 137-145: b is the 12-byte buffer, of which read filled the first n
HeaderMagic(d, b, n) ==
    IF n = 0 THEN [d |-> d, st |-> "eof", msg |-> ""]
    ELSE IF SubSeq(b, 1, 6) # <<253, 55, 122, 88, 90, 0>>
    THEN [d |-> d, st |-> "err", msg |-> "Invalid XZ header"]
    ELSE HeaderFlags([d EXCEPT !.flags = <<b[7], b[8]>>, !.hdrs = @ + 1], SubSeq(b, 9, 12))

\* lines 136-137: one read into a zeroed buffer of 12 bytes
HeaderBuffer(r) == HeaderMagic(r.d, r.b \o Zeros(12 - Len(r.b)), Len(r.b))

StreamHeader(d) == HeaderBuffer(CountRead(d, 12))

(***************************************************************************)
(* lines 166-212: index, footer and footer padding                         *)
(***************************************************************************)
\* IndexCountOk with the comparison left out
IndexCountUnchecked(v, d) == TRUE

\* line 169
IndexCountOk(v, d) == v = U64(Len(d.records))

\* lines 169-171: q holds num_records
IndexCount(q) ==
    IF q.ok /\ ~IndexCountOk(q.v, q.d) THEN Fail(q, "Invalid XZ index record count") ELSE q

\* lines 172-179
RECURSIVE IndexRecords(_, _)
IndexRecords(p, i) ==
    IF ~p.ok \/ i > Len(p.d.records) THEN p
    ELSE IndexRecords(
             MultibyteIs(
                 GetMultibyte(
                     MultibyteIs(GetMultibyte(p), U64(p.d.records[i][1]),
                                 "Invalid XZ unpadded size")),
                 U64(p.d.records[i][2]), "Invalid XZ uncompressed size"),
             i + 1)

\* lines 183-187: q holds the padding read, size the index size before it
IndexPadded(q, size) ==
    IF ~q.ok THEN q
    ELSE IF ~AllZero(q.b) THEN Fail(q, "Invalid XZ index padding")
    ELSE [q EXCEPT !.h = q.h \o q.b, !.size = size + Len(q.b)]

\* lines 180-182
IndexPadding(p) ==
    IF ~p.ok THEN p
    ELSE IndexPadded(Take(p, Pad4(p.d.count - p.d.block_begin)),
                     p.d.count - p.d.block_begin)

\* FooterChecks without the comparison of the backward size
FooterChecksNoSize(q) ==
    IF ~q.ok THEN q
    ELSE IF Crc32(q.h) # SubSeq(q.b, 1, 4) THEN Fail(q, "Invalid XZ index CRC32")
    ELSE IF Crc32(SubSeq(q.b, 9, 14)) # SubSeq(q.b, 5, 8)
    THEN Fail(q, "Invalid XZ footer CRC32")
    ELSE IF q.d.flags # SubSeq(q.b, 13, 14) THEN Fail(q, "Invalid XZ footer flags")
    ELSE IF SubSeq(q.b, 15, 16) # <<89, 90>> THEN Fail(q, "Invalid XZ footer magic")
    ELSE q

\* FooterChecks with the positions of the two CRC32 fields exchanged
FooterChecksSwapped(q) ==
    IF ~q.ok THEN q
    ELSE IF Crc32(q.h) # SubSeq(q.b, 5, 8) THEN Fail(q, "Invalid XZ index CRC32")
    ELSE IF Crc32(SubSeq(q.b, 9, 14)) # SubSeq(q.b, 1, 4)
    THEN Fail(q, "Invalid XZ footer CRC32")
    ELSE IF SubSeq(q.b, 9, 12) # Le32(q.size \div 4) THEN Fail(q, "Invalid XZ footer size")
    ELSE IF q.d.flags # SubSeq(q.b, 13, 14) THEN Fail(q, "Invalid XZ footer flags")
    ELSE IF SubSeq(q.b, 15, 16) # <<89, 90>> THEN Fail(q, "Invalid XZ footer magic")
    ELSE q

\* lines 190-206: q holds the 16 bytes read after the index padding
FooterChecks(q) ==
    IF ~q.ok THEN q
    ELSE IF Crc32(q.h) # SubSeq(q.b, 1, 4) THEN Fail(q, "Invalid XZ index CRC32")
    ELSE IF Crc32(SubSeq(q.b, 9, 14)) # SubSeq(q.b, 5, 8)
    THEN Fail(q, "Invalid XZ footer CRC32")
    ELSE IF SubSeq(q.b, 9, 12) # Le32(q.size \div 4) THEN Fail(q, "Invalid XZ footer size")
    ELSE IF q.d.flags # SubSeq(q.b, 13, 14) THEN Fail(q, "Invalid XZ footer flags")
    ELSE IF SubSeq(q.b, 15, 16) # <<89, 90>> THEN Fail(q, "Invalid XZ footer magic")
    ELSE q

\* lines 209-212: q holds the footer padding read
FooterPadded(q) ==
    IF ~q.ok THEN q
    ELSE IF ~AllZero(q.b) THEN Fail(q, "Invalid XZ footer padding")
    ELSE [q EXCEPT !.d.count = 0, !.d.ended = @ + 1]

\* lines 207-208
FooterPadding(p) == IF ~p.ok THEN p ELSE FooterPadded(Take(p, Pad4(p.d.count)))

\* lines 168-212: p.h holds the marker byte already read
IndexFooter(p) ==
    FooterPadding(FooterChecks(Take(IndexPadding(IndexRecords(IndexCount(GetMultibyte(p)),
                                                               1)),
                                    16)))

(***************************************************************************)
(* lines 217-259: the block header                                         *)
(***************************************************************************)
\* lines 224-226: q.b holds the block flags
BlockFlags(q) ==
    IF ~q.ok THEN q
    ELSE IF (q.b[1] \div 4) % 16 # 0 THEN Fail(q, "Invalid XZ block flags")
    ELSE q

\* flags & 0x40 / flags & 0x80: an optional size field, read and dropped
OptionalSize(present, p) == IF present THEN GetMultibyte(p) ELSE p

\* lines 243-246: q.b holds the properties byte
FilterProperties(q) ==
    IF ~q.ok THEN q
    ELSE IF q.b[1] \div 64 # 0 THEN Fail(q, "Unsupported XZ filter properties")
    ELSE Update(q)

\* lines 234-246: one turn of the filter loop
Filter(p) ==
    FilterProperties(
        Take(MultibyteIs(
                 GetMultibyte(MultibyteIs(GetMultibyte(p), U64(33),
                                          "Unsupported XZ filter ID")),
                 U64(1), "Unsupported XZ filter properties size"),
             1))

\* lines 233-247
RECURSIVE Filters(_, _)
Filters(p, k) == IF ~p.ok \/ k = 0 THEN p ELSE Filters(Filter(p), k - 1)

\* lines 250-253: q holds the header padding read
BlockHeaderPadded(q) ==
    IF ~q.ok THEN q
    ELSE IF ~AllZero(q.b) THEN Fail(q, "Invalid XZ block header padding")
    ELSE Update(q)

\* lines 248-249.  With header_end < count the subtraction panics where
\* overflow is checked; where it wraps, vec! is asked for more than
\* isize::MAX bytes and panics as well: a panic in every build.
BlockHeaderPadding(p, header_end) ==
    IF ~p.ok THEN p
    ELSE IF header_end < p.d.count
    THEN [p EXCEPT !.ok = FALSE, !.kind = "panic",
                   !.msg = "attempt to subtract with overflow"]
    ELSE BlockHeaderPadded(Take(p, header_end - p.d.count))

\* lines 255-259: q.b holds the four bytes read after the padding
BlockHeaderCrc(q) ==
    IF ~q.ok THEN q
    ELSE IF Crc32(q.h) # q.b THEN Fail(q, "Invalid XZ block header CRC32")
    ELSE q

\* lines 222-259: p.b holds the block flags
BlockFields(p, header_end) ==
    IF ~p.ok THEN p
    ELSE BlockHeaderCrc(
             Take(BlockHeaderPadding(
                      Filters(OptionalSize(p.b[1] \div 128 = 1,
                                           OptionalSize((p.b[1] \div 64) % 2 = 1, p)),
                              (p.b[1] % 4) + 1),
                      header_end),
                  4))

\* lines 217-259: p.h holds the header-length byte lb already read
BlockHeader(p, lb) ==
    BlockFields(BlockFlags(Update(Take(p, 1))), 4 * lb - 1 + p.d.count)

\* lines 262-265: r is what the first read of the new LZMA2Reader returned
FirstRead(r) ==
    IF ~r.ok
    THEN Ret([r.d EXCEPT !.refs = @ - 1, !.lz = NewLzma], "err", LzMsg, <<>>)
    ELSE Ret([r.d EXCEPT !.block_written = @ + Len(r.b), !.mode = "Lzma", !.refs = @ - 1],
             "ok", "", r.b)

\* lines 260-265: a new LZMA2Reader over a clone, and its first read
EnterBlock(d, n) ==
    FirstRead(LzRead([d EXCEPT !.block_written = 0, !.lz = NewLzma, !.refs = @ + 1], n))

(***************************************************************************)
(* lines 129-266: structural parsing with the raw reader                   *)
(***************************************************************************)
RECURSIVE Structural(_, _)

\* line 213: return self.read(buf)
AfterFooter(x, n) ==
    IF ~x.ok THEN Ret(x.d, x.kind, x.msg, <<>>) ELSE Structural(x.d, n)

AfterBlockHeader(bh, n) ==
    IF ~bh.ok THEN Ret(bh.d, bh.kind, bh.msg, <<>>) ELSE EnterBlock(bh.d, n)

\* lines 162-166: p.b holds the byte that tells the index from a block
MarkerByte(p, n) ==
    IF ~p.ok THEN Ret(p.d, p.kind, p.msg, <<>>)
    ELSE IF p.b[1] = 0 THEN AfterFooter(IndexFooter(Update(p)), n)
    ELSE AfterBlockHeader(BlockHeader(Update(p), p.b[1]), n)

\* lines 138-162: hd is what the stream header step left
AfterStreamHeader(hd, n) ==
    IF hd.st = "eof" THEN Ret(hd.d, "ok", "", <<>>)
    ELSE IF hd.st = "err" THEN Ret(hd.d, "err", hd.msg, <<>>)
    ELSE MarkerByte(Take(Go([hd.d EXCEPT !.block_begin = hd.d.count], <<>>), 1), n)

Structural(d, n) ==
    AfterStreamHeader(IF d.count = 0 THEN StreamHeader(d)
                      ELSE [d |-> d, st |-> "go", msg |-> ""], n)

(***************************************************************************)
(* XzDecoder::read with a caller buffer of n bytes                         *)
(***************************************************************************)
\* line 120 onwards: f is what the block trailer step left
AfterTrailer(f, n) == IF f.kind # "ok" THEN f ELSE Structural(f.d, n)

\* lines 103-127: r is what reader.read(buf) returned
AfterLzRead(r, n) ==
    IF ~r.ok THEN Ret(r.d, "err", LzMsg, <<>>)
    ELSE IF r.b # <<>>
    THEN Ret([r.d EXCEPT !.block_written = @ + Len(r.b)], "ok", "", r.b)
    ELSE AfterTrailer(FinalizeBlock(r.d), n)

XzRead(d, n) ==
    IF d.mode = "Lzma" THEN AfterLzRead(LzRead(d, n), n) ELSE Structural(d, n)

\* XzReader::into_inner and the unwrap of XzDecoder::into_inner:
\* Rc::into_inner gives the source only to the last strong reference
IntoInnerResult(d) ==
    IF d.refs = 1 THEN [kind |-> "inner", n |-> d.pos, msg |-> ""]
    ELSE [kind |-> "panic", n |-> 0, msg |-> "unwrap on None"]

(***************************************************************************)
(* The state machine: one decoder per behaviour, built over the bytes of   *)
(* one stream; every step is one call of read or of into_inner.            *)
(***************************************************************************)
NoResult == [kind |-> "none", n |-> 0, msg |-> ""]

NoMb == [start |-> 0, v |-> U64Zero, h |-> <<>>]

NoTwin == [d |-> NewDecoder(<<>>), out |-> <<>>, result |-> NoResult, chk |-> "crc"]

\* the decoder state held in the variables
Decoder ==
    [data |-> inner.data, pos |-> inner.pos, chunk |-> inner.chunk, count |-> count,
     refs |-> refs,
     mode |-> compressed_reader, lz |-> lzma, flags |-> flags,
     block_begin |-> block_begin, block_written |-> block_written,
     records |-> records, ended |-> ended, hdrs |-> hdrs]

Holds(d) ==
    /\ inner = [data |-> d.data, pos |-> d.pos, chunk |-> d.chunk]
    /\ count = d.count
    /\ refs = d.refs
    /\ compressed_reader = d.mode
    /\ lzma = d.lz
    /\ flags = d.flags
    /\ block_begin = d.block_begin
    /\ block_written = d.block_written
    /\ records = d.records
    /\ ended = d.ended
    /\ hdrs = d.hdrs

Becomes(d) ==
    /\ inner' = [data |-> d.data, pos |-> d.pos, chunk |-> d.chunk]
    /\ count' = d.count
    /\ refs' = d.refs
    /\ compressed_reader' = d.mode
    /\ lzma' = d.lz
    /\ flags' = d.flags
    /\ block_begin' = d.block_begin
    /\ block_written' = d.block_written
    /\ records' = d.records
    /\ ended' = d.ended
    /\ hdrs' = d.hdrs

ResultOf(r) == [kind |-> r.kind, n |-> Len(r.bytes), msg |-> r.msg]

\* the decoder can still be called: it has not panicked or been consumed
Usable(res) == res.kind \notin {"panic", "inner"}

Init ==
    /\ input \in {i \in Inputs : i.defect = "none" \/ i.trail = "none"}
    /\ \E d \in {NewDecoder(StreamBytes(input))} : Holds(d)
    /\ out = <<>>
    /\ result = NoResult
    /\ firstErr = ""
    /\ twin = NoTwin
    /\ mb = NoMb

\* one call of XzDecoder::read with a buffer of n bytes
ReadCall(n) ==
    /\ Usable(result)
    /\ Len(records) < MaxRecords
    /\ \E r \in {XzRead(Decoder, n)} :
           /\ Becomes(r.d)
           /\ out' = out \o r.bytes
           /\ result' = ResultOf(r)
           /\ firstErr' = IF firstErr = "" /\ r.kind = "err" THEN r.msg ELSE firstErr
    /\ UNCHANGED <<input, mb>>

Read(n) == ReadCall(n) /\ UNCHANGED twin

\* XzDecoder::into_inner: consumes the decoder
IntoInner ==
    /\ Usable(result)
    /\ result' = IntoInnerResult(Decoder)
    /\ UNCHANGED <<input, inner, count, refs, compressed_reader, lzma, flags, block_begin,
                   block_written, records, out, firstErr, ended, hdrs, twin, mb>>

Next ==
    \/ \E n \in 1..MaxBuf : Read(n)
    \/ IntoInner

Spec == Init /\ [][Next]_vars

(***************************************************************************)
(* Two decoders over two CRC32-checked streams that differ only in the     *)
(* bytes of the check fields, called with the same buffers.                *)
(***************************************************************************)
InitPair ==
    /\ input \in {[i EXCEPT !.ct = 1, !.chk = c] : i \in {j \in Inputs : j.trail = "none"},
                                                   c \in CheckFills}
    /\ \E d \in {NewDecoder(StreamBytes(input))} : Holds(d)
    /\ out = <<>>
    /\ result = NoResult
    /\ firstErr = ""
    /\ \E c \in CheckFills \ {input.chk} :
           twin = [d |-> NewDecoder(StreamBytes([input EXCEPT !.chk = c])),
                   out |-> <<>>, result |-> NoResult, chk |-> c]
    /\ mb = NoMb

ReadBoth(n) ==
    /\ ReadCall(n)
    /\ Usable(twin.result)
    /\ Len(twin.d.records) < MaxRecords
    /\ \E t \in {XzRead(twin.d, n)} :
           twin' = [d |-> t.d, out |-> twin.out \o t.bytes, result |-> ResultOf(t),
                    chk |-> twin.chk]

NextPair == \E n \in 0..MaxBuf : ReadBoth(n)

SpecPair == InitPair /\ [][NextPair]_vars

(***************************************************************************)
(* One decoder over a well-formed stream, read with buffers of any size,   *)
(* the empty buffer included.                                              *)
(***************************************************************************)
InitClean == Init /\ input.defect = "none" /\ input.trail = "none"

NextAnyBuf == \E n \in 0..MaxBuf : Read(n)

SpecAnyBuf == InitClean /\ [][NextAnyBuf]_vars

(***************************************************************************)
(* Two decoders over the same well-formed stream, called with the same     *)
(* buffers: the source of the first hands out at most chunk bytes per read *)
(* call, too few for the 12 header bytes; the source of the second hands   *)
(* out whatever is asked of it.                                            *)
(***************************************************************************)
ShortReads == 1..11

InitSplit ==
    /\ input \in {i \in Inputs : i.defect = "none" /\ i.trail = "none"}
    /\ \E d \in {NewDecoder(StreamBytes(input))} :
           /\ \E c \in ShortReads : Holds([d EXCEPT !.chunk = c])
           /\ twin = [d |-> d, out |-> <<>>, result |-> NoResult, chk |-> input.chk]
    /\ out = <<>>
    /\ result = NoResult
    /\ firstErr = ""
    /\ mb = NoMb

NextSplit == \E n \in 1..MaxBuf : ReadBoth(n)

SpecSplit == InitSplit /\ [][NextSplit]_vars

(***************************************************************************)
(* get_multibyte on its own: a reader over a short byte sequence and a     *)
(* fresh Hasher for every call; calls follow each other until one fails.   *)
(***************************************************************************)
MbBytes == {0, 1, 127, 128, 129, 255}

MbTails == UNION {[1..n -> MbBytes] : n \in 0..2}

\* k bytes with the top bit set
Conts(k, c) == [i \in 1..k |-> IF c = 0 THEN 128 + i ELSE c]

MbInputs == {Conts(k, c) \o t : k \in 0..MaxConts, c \in {0, 128, 255}, t \in MbTails}

InitMultibyte ==
    /\ input \in MbInputs
    /\ \E d \in {NewDecoder(input)} : Holds(d)
    /\ out = <<>>
    /\ result = NoResult
    /\ firstErr = ""
    /\ twin = NoTwin
    /\ mb = NoMb

\* get_multibyte(reader, &mut Hasher::new())
CallGetMultibyte ==
    /\ result.kind # "err"
    /\ \E p \in {GetMultibyte(Go(Decoder, <<>>))} :
           /\ Becomes(p.d)
           /\ result' = [kind |-> p.kind, n |-> 0, msg |-> p.msg]
           /\ mb' = [start |-> inner.pos, v |-> p.v, h |-> p.h]
    /\ UNCHANGED <<input, out, firstErr, twin>>

NextMultibyte == CallGetMultibyte

SpecMultibyte == InitMultibyte /\ [][NextMultibyte]_vars

(***************************************************************************)
(* Properties                                                              *)
(***************************************************************************)
IsPrefix(s, t) == Len(s) <= Len(t) /\ SubSeq(t, 1, Len(s)) = s

NumBlocks == Len(input.blocks)

\* offset of the index marker byte in the stream
IndexStart(in) == 12 + Len(BlocksBytes(in, 1))

\* the errors of the stream header, lines 142-157
HeaderErrors ==
    {"Invalid XZ header", "Invalid XZ stream flags", "Unsupported XZ stream flags",
     "Invalid XZ stream flags CRC32"}

\* C1's streams: no defect, check type none, at least one block, every
\* unpadded size a multiple of 4, and the source ends with the stream
Aligned(in) ==
    /\ in.defect = "none" /\ in.trail = "none" /\ in.ct = 0
    /\ Len(in.blocks) >= 1
    /\ \A i \in 1..Len(in.blocks) : TrueUnpadded(in, i) % 4 = 0

\* C1: on a well-formed stream of aligned blocks without check, whose source
\* ends with the stream, no read fails, the bytes returned so far are always
\* the beginning of the concatenated payloads, a read returns 0 bytes only
\* once the stream has ended, and by then exactly the concatenated payloads
\* have been returned.
C1_DecodesPayloads ==
    Aligned(input) =>
        /\ firstErr = ""
        /\ result.kind # "panic"
        /\ IsPrefix(out, PayloadFrom(input, 1))
        /\ (result.kind = "ok" /\ result.n = 0) => ended = 1
        /\ ended >= 1 =>
              /\ ended = 1
              /\ out = PayloadFrom(input, 1)
              /\ result.kind = "ok" => result.n = 0

C1_Witness ==
    /\ Aligned(input) /\ NumBlocks = 2
    /\ ended = 1 /\ result.kind = "ok" /\ result.n = 0
    /\ out = PayloadFrom(input, 1)

\* C2: once index, footer and trailing padding have been consumed, every
\* read returns 0 bytes without error whatever follows in the source, and
\* no further stream header is parsed.
C2_FinishedIsTerminal ==
    ended >= 1 =>
        /\ result.kind \in {"ok", "inner"}
        /\ result.kind = "ok" => result.n = 0
        /\ hdrs <= 1

\* C3: once the stream has been fully decoded, the decoder has taken from
\* the source exactly the bytes of the stream, whatever follows it.
C3_NoByteBeyondStream == ended >= 1 => inner.pos = Len(OneStream(input))

\* C4: the stream ends without error only if the index declares as many
\* records as blocks were decoded and each declared pair equals the recorded
\* pair of its block; a stream with an accepted header whose index declares
\* another count fails first with the record-count error, one with a differing
\* pair fails first with the unpadded-size or uncompressed-size error.
C4_IndexCrossChecked ==
    /\ ended >= 1 =>
          /\ DeclCount(input) = NumBlocks
          /\ Len(records) >= NumBlocks
          /\ \A i \in 1..NumBlocks : records[i] = DeclPair(input, i)
    /\ (/\ inner.pos > IndexStart(input)
        /\ firstErr \notin HeaderErrors
        /\ DeclCount(input) # NumBlocks)
          => firstErr = "Invalid XZ index record count"
    /\ (/\ inner.pos > IndexStart(input)
        /\ firstErr \notin HeaderErrors
        /\ DeclCount(input) = NumBlocks
        /\ \E i \in 1..Min(NumBlocks, Len(records)) : records[i] # DeclPair(input, i))
          => firstErr \in {"Invalid XZ unpadded size", "Invalid XZ uncompressed size"}

C4_Witness ==
    /\ input.defect = "idxcount" /\ NumBlocks = 2
    /\ Len(records) = 2
    /\ inner.pos > IndexStart(input)
    /\ firstErr = "Invalid XZ index record count"

\* the defect puts a non-zero byte into a padding region that is not empty
HeaderPadHit(in) == in.defect = "hdrpad" /\ Len(in.blocks) >= 1

BlockPadHit(in) ==
    in.defect = "blkpad" /\ \E i \in 1..Len(in.blocks) : TrueUnpadded(in, i) % 4 # 0

IndexPadHit(in) == in.defect = "idxpad" /\ Len(in.blocks) % 2 = 0

\* C5: a non-zero byte in a padding region makes read fail with the padding
\* error of that region: the first error is that region's error and the
\* stream is never accepted.
C5_PaddingRejected ==
    /\ (HeaderPadHit(input) \/ BlockPadHit(input) \/ IndexPadHit(input)) => ended = 0
    /\ (HeaderPadHit(input) /\ firstErr # "")
          => firstErr = "Invalid XZ block header padding"
    /\ (IndexPadHit(input) /\ firstErr # "") => firstErr = "Invalid XZ index padding"
    /\ (BlockPadHit(input) /\ firstErr # "") => firstErr = "Invalid XZ block padding"

\* C6: two CRC32-checked streams that differ only in the check-value fields
\* give the same result on every read: same bytes, same success or error.
C6_CheckValueIgnored == twin.result = result /\ twin.out = out

\* C7: on a well-formed stream, the unpadded size recorded for a completed
\* block is the length of its header, compressed body and check-value field.
C7_UnpaddedCountsCheck ==
    (input.defect = "none" /\ NumBlocks >= 1 /\ Len(records) >= 1)
        => records[1][1] = TrueUnpadded(input, 1)

\* bytes the block trailer step reads: alignment padding and check field
TrailerLen == Pad4(count - block_begin) + (IF flags[2] % 16 = 1 THEN 4 ELSE 0)

\* C8: after the LZMA2 adapter has signalled the end of a block, the trailer
\* step fails only if the source holds fewer than the padding and check bytes.
C8_TrailerStepSucceeds ==
    (compressed_reader = "Lzma" /\ lzma.end /\ result.kind = "err")
        => Len(inner.data) - inner.pos < TrailerLen

\* C9: a block header declaring more than one filter is rejected and its
\* block is never entered.
C9_OneFilterOnly ==
    (input.defect = "filters2" /\ NumBlocks >= 1)
        => compressed_reader = "Raw" /\ out = <<>> /\ records = <<>>

\* C10: into_inner called inside a block panics instead of returning the
\* byte source.
C10_IntoInnerInBlockPanics ==
    (compressed_reader = "Lzma" /\ ~Usable(result)) => result.kind = "panic"

\* C11: once a read has failed on the stream header, no later read enters a
\* block, returns decompressed bytes, completes a block or succeeds.
C11_HeaderGatesParsing ==
    firstErr \in HeaderErrors
        => /\ compressed_reader = "Raw"
           /\ out = <<>>
           /\ records = <<>>
           /\ result.kind # "ok"

\* the 16 bytes of the source that follow the index padding of the stream
FooterRead ==
    SubSeq(inner.data, IndexStart(input) + Len(IndexBytes(input)) + 1,
           IndexStart(input) + Len(IndexBytes(input)) + 16)

\* C12 as stated: a stream is accepted only if bytes [0:4] of the 16 bytes
\* after the index padding are the CRC32 of bytes [8:14] and bytes [4:8] are
\* the CRC32 of the index bytes.
C12_FooterCrcPositions ==
    ended >= 1 =>
        /\ SubSeq(FooterRead, 1, 4) = Crc32(SubSeq(FooterRead, 9, 14))
        /\ SubSeq(FooterRead, 5, 8) = Crc32(IndexBytes(input))

\* C12 amended: a stream is accepted only if bytes [0:4] of the 16 bytes
\* after the index padding are the CRC32 of the index bytes (marker through
\* padding) and bytes [4:8] are the CRC32 of bytes [8:14].
C12_IndexCrcThenFooterCrc ==
    ended >= 1 =>
        /\ SubSeq(FooterRead, 1, 4) = Crc32(IndexBytes(input))
        /\ SubSeq(FooterRead, 5, 8) = Crc32(SubSeq(FooterRead, 9, 14))

C12_Witness ==
    /\ ended = 1 /\ input.defect = "none" /\ NumBlocks >= 1
    /\ inner.pos = IndexStart(input) + Len(IndexBytes(input)) + 16
    /\ SubSeq(FooterRead, 1, 4) # SubSeq(FooterRead, 5, 8)

\* length of the Index section, marker byte through index CRC32
IndexLen(in) == Len(IndexBytes(in)) + 4

\* streams whose blocks have no check field and no alignment padding
NoTrailer(in) ==
    in.ct = 0 /\ \A i \in 1..Len(in.blocks) : TrueUnpadded(in, i) % 4 = 0

\* C13: a stream is accepted only if the little-endian backward-size field
\* of its footer equals (Index length / 4) - 1, the Index counted from the
\* marker byte through its CRC32; a stream whose only defect is another value
\* in that field fails first with the footer-size error.
C13_BackwardSize ==
    /\ ended >= 1 => SubSeq(FooterRead, 9, 12) = Le32(IndexLen(input) \div 4 - 1)
    /\ (/\ input.defect = "bsize" /\ NoTrailer(input)
        /\ inner.pos >= IndexStart(input) + IndexLen(input) + 12)
          => firstErr = "Invalid XZ footer size"

C13_Witness ==
    /\ input.defect = "bsize" /\ NumBlocks >= 1 /\ Len(records) = NumBlocks
    /\ SubSeq(FooterRead, 9, 12) = Le32(IndexLen(input) \div 4)
    /\ result = [kind |-> "err", n |-> 0, msg |-> "Invalid XZ footer size"]

\* C14: on a well-formed stream, the records pushed so far are one per
\* completed block, in block order, each with the uncompressed size of its
\* block, also after a read that failed on the block's padding and check bytes.
C14_OneRecordPerBlock ==
    (input.defect = "none" /\ hdrs <= 1)
        => /\ Len(records) <= NumBlocks
           /\ \A i \in 1..Min(Len(records), NumBlocks) :
                  records[i][2] = SumSeq(input.blocks[i])

\* the bytes in front of the last get_multibyte call
MbAvail == Len(inner.data) - mb.start

MbByte(i) == inner.data[mb.start + i]

\* positions among the first 9 bytes whose top bit is clear
MbClear == {i \in 1..Min(9, MbAvail) : MbByte(i) < 128}

MbFirstClear == CHOOSE i \in MbClear : \A j \in MbClear : i <= j

MbNineSet == MbAvail >= 9 /\ \A i \in 1..9 : MbByte(i) >= 128

\* C15: get_multibyte consumes the bytes up to and including the first of
\* the first 9 whose top bit is clear, returns the value whose base-128
\* digits are the low 7 bits of the consumed bytes, least significant first
\* (below 2^63), and has fed exactly the consumed bytes to the Hasher; it
\* returns the format error exactly when the first 9 bytes all have the top
\* bit set, after consuming and hashing those 9.
C15_Multibyte ==
    result.kind # "none" =>
        /\ MbClear # {} =>
              /\ result.kind = "ok"
              /\ inner.pos = mb.start + MbFirstClear
              /\ count = inner.pos
              /\ mb.h = SubSeq(inner.data, mb.start + 1, mb.start + MbFirstClear)
              /\ mb.v = [j \in 1..9 |-> IF j <= MbFirstClear THEN MbByte(j) % 128 ELSE 0]
        /\ (result.kind = "err" /\ result.msg = "Invalid multi-byte encoding") <=> MbNineSet
        /\ MbNineSet =>
              /\ inner.pos = mb.start + 9
              /\ mb.h = SubSeq(inner.data, mb.start + 1, mb.start + 9)
        /\ (MbClear = {} /\ ~MbNineSet) =>
              result = [kind |-> "err", n |-> 0, msg |-> EofMsg]

C15_Witness ==
    /\ result.kind = "ok"
    /\ inner.pos - mb.start = 9
    /\ mb.v[9] = 127 /\ mb.v[2] = 2 /\ mb.v[1] = 1

\* C16: no read runs into the unreachable!() arm of the check-size match:
\* whenever a block is finalized the stored check type is 0 or 1.
C16_UnreachableNeverRuns ==
    /\ ~(result.kind = "panic" /\ result.msg = "unreachable")
    /\ compressed_reader = "Lzma" => flags[2] % 16 \in {0, 1}

\* C17: no read panics on the subtraction header_end - count (line 247): a
\* block header whose declared length is shorter than its fields is rejected
\* with an error.
C17_HeaderEndNotBeforeCount ==
    /\ result.msg # "attempt to subtract with overflow"
    /\ (input.defect = "hdrshort" /\ NumBlocks >= 1 /\ firstErr = "" /\ inner.pos > 12)
          => result.kind = "err"

\* C18: a read with a non-empty buffer returns 0 bytes without error only
\* once index, footer and trailing padding of the stream have been validated
\* (no generated source is empty).
C18_ZeroOnlyAtEnd ==
    (result.kind = "ok" /\ result.n = 0) => ended >= 1

\* C19: a read with an empty buffer made inside a block appends no record,
\* takes no byte from the source and leaves the decoder inside the block.
C19_EmptyReadInBlockIsNoOp ==
    [][(compressed_reader = "Lzma" /\ Read(0))
          => UNCHANGED <<records, inner, count, compressed_reader>>]_vars

\* C20: on a well-formed stream, the decoder whose source delivers the 12
\* header bytes in several short reads has returned, after every read, the
\* same bytes and the same result as the decoder whose source delivers them
\* in one read.
C20_SplitIndependent ==
    /\ out = twin.out
    /\ result.kind = twin.result.kind
    /\ result.n = twin.result.n
    /\ result.msg = twin.result.msg

====
